---- MODULE Spec2Model ----
(***************************************************************************)
(* Model of missmixed.MissMixed (src/missmixed/miss_mixed.py): the         *)
(* constructor (cleaning, categorical encoding, initial fill, metric       *)
(* set-up), the fit_transform loop over stages and columns, the per-column *)
(* score gate, the early-stopping test and result().                       *)
(*                                                                         *)
(* Conventions.  A data frame is a sequence of columns; a column is a      *)
(* record [label, cells] where label is the pandas column label (0-based,  *)
(* a RangeIndex as pandas gives an unnamed frame) and cells a sequence of  *)
(* row values.  TLA+ sequences are 1-based, so the Python position p is    *)
(* the TLA+ index p + 1; col_idx and idx below are the TLA+ indices.       *)
(* External collaborators (the estimators of a stage and the sklearn       *)
(* metric functions) are modelled by their results: a trial yields a       *)
(* validation score and the values its fitted model predicts for the rows  *)
(* to impute, both drawn from small sets.                                  *)
(***************************************************************************)
EXTENDS Integers, Sequences, FiniteSets, TLC

VARIABLES
    pc,                     \* "new", "ready", "running", "done", or the name of the exception raised
    raw_data,               \* self.raw_data: the table given to the constructor
    given_flags,            \* history: the caller's categorical flag list as it was passed in
    categorical_columns,    \* self.categorical_columns: the caller's list itself (aliased, mutated in place)
    metric,                 \* the metric argument
    early_stopping,         \* self.early_stopping
    iter_per_stopping,      \* self.iter_per_stopping
    tolerance_percentage,   \* self.tolerance_percentage as a fraction <<numerator, denominator>>
    train_size,             \* self.train_size as a fraction <<numerator, denominator>>
    sequential,             \* self.sequential.imputers: the ordered stages
    working_data,           \* self.working_data
    column_to_encoder,      \* self.column_to_encoder: per position the encoder's classes_ (<<>>: no encoder)
    num_of_columns,         \* self.num_of_columns
    imputed_df,             \* self.imputed_df: a sequence of cell sequences (labels are the positions)
    metric_direction,       \* self.metric_direction
    max_metric_tests,       \* self.max_metric_tests
    idx,                    \* fit_transform: index of the stage being processed
    col_idx,                \* __process_each_imputer: index of the column to process next
    updated_column_count,   \* __process_each_imputer: columns updated so far in this stage
    updated_columns_count,  \* fit_transform: the per-stage update counts
    early_stop_prints,      \* number of times 'Early stopping condition hits!' was printed
    result_calls,           \* number of calls of result() made
    trained,                \* history: positions for which imputer.fit has been called
    accepted_scores,        \* history: per position, the scores the gate accepted, in order
    normalized_features,    \* last pass: the features __dataset_preparation made (no column: none made)
    metric_scores,          \* last pass: per trial its validation score and its model's predictions
    best_index,             \* last pass: the index of the selected trial (0: no trial was run)
    gate_call               \* last pass: the call of __can_impute that was made, if any

vars == <<pc, raw_data, given_flags, categorical_columns, metric, early_stopping,
          iter_per_stopping, tolerance_percentage, train_size, sequential,
          working_data, column_to_encoder, num_of_columns, imputed_df,
          metric_direction, max_metric_tests, idx, col_idx, updated_column_count,
          updated_columns_count, early_stop_prints, result_calls, trained,
          accepted_scores, normalized_features, metric_scores, best_index, gate_call>>

\* what the last pass of the column loop did
pass == <<normalized_features, metric_scores, best_index, gate_call>>

inputs == <<raw_data, given_flags, metric, early_stopping, iter_per_stopping,
            tolerance_percentage, train_size, sequential>>

(***************************************************************************)
(* Values                                                                  *)
(***************************************************************************)

\* numpy.nan, a missing cell (all data values of the model are >= -1)
NaN == -1000

\* numpy.inf, as the score board uses it; every score lies strictly inside (-Inf, Inf)
Inf == 1000

acceptable_metrics == {"r2_accuracy", "mse"}

\* Bounds of the model
MaxStages == 2
MaxIterPerStopping == 2
MaxResultCalls == 2

\* Columns of the input tables:
\*   ColE  no observed value            (dropped by cleaning)
\*   ColS  a single observed value      (dropped by cleaning)
\*   ColP  one missing value            (mean 4; as categories: classes 2,4,6, codes 0,1,2, mean code 1)
\*   ColF  no missing value
ColE == <<NaN, NaN, NaN, NaN>>
ColS == <<NaN, 8, NaN, NaN>>
ColP == <<2, 4, NaN, 6>>
ColF == <<1, 3, 3, 5>>

ColumnKinds == {ColE, ColS, ColP, ColF}

\* every three-column table over the column kinds
Tables == {<<a, b, c>> : a \in ColumnKinds, b \in ColumnKinds, c \in ColumnKinds}

FlagLists == {<<a, b, c>> : a \in BOOLEAN, b \in BOOLEAN, c \in BOOLEAN}

\* the tables and flag lists a whole run is explored for
RunTables == {<<ColP, ColF, ColP>>, <<ColE, ColF, ColP>>, <<ColF, ColP, ColS>>,
              <<ColF, ColF, ColF>>}

RunFlagLists == {<<FALSE, FALSE, FALSE>>, <<TRUE, FALSE, FALSE>>, <<FALSE, FALSE, TRUE>>}

Metrics == acceptable_metrics \cup {"bogus"}

\* one third: of three columns one is within it and two are above it
Tolerances == {<<1, 3>>}

TrainSizes == {<<1, 2>>, <<9, 10>>}

\* A stage (missmixed.architecture): which model variants it has and its trial count
StageKinds == {[categorical |-> TRUE, numerical |-> TRUE, trials |-> 2],
               [categorical |-> FALSE, numerical |-> TRUE, trials |-> 1]}

Sequentials == UNION {[1..n -> StageKinds] : n \in 1..MaxStages}

\* the validation scores a metric may return
Scores == {0, 1}

(***************************************************************************)
(* Helpers on sequences and columns                                        *)
(***************************************************************************)

RECURSIVE SumSeq(_)
SumSeq(s) == IF s = <<>> THEN 0 ELSE Head(s) + SumSeq(Tail(s))

\* pandas notna / isnull on the cells of a column
NotNa(cells) == {r \in DOMAIN cells : cells[r] # NaN}

IsNull(cells) == {r \in DOMAIN cells : cells[r] = NaN}

NonNullValues(cells) == SelectSeq(cells, LAMBDA v : v # NaN)

\* the frame pandas builds from a table: column labels 0, 1, 2, ...
AsFrame(table) == [p \in DOMAIN table |-> [label |-> p - 1, cells |-> table[p]]]

\* Python `del lst[i]` for 0 <= i < len(lst)
DelAt(lst, i) == [j \in 1..(Len(lst) - 1) |-> IF j <= i THEN lst[j] ELSE lst[j + 1]]

\* sorted(set(values)) as numpy.unique returns it
RECURSIVE SortedUnique(_)
SortedUnique(S) ==
    IF S = {} THEN <<>>
    ELSE LET m == CHOOSE x \in S : \A y \in S : x <= y
         IN  <<m>> \o SortedUnique(S \ {m})

Range(s) == {s[i] : i \in DOMAIN s}

(***************************************************************************)
(* Construction: __init__, lines 88-102                                    *)
(***************************************************************************)

\* __clean_working_data, lines 108-109: the labels of the columns with at most
\* one non-missing value, in column order
ColumnsToBeDropped(df) ==
    LET kept == SelectSeq(df, LAMBDA c : Cardinality(NotNa(c.cells)) <= 1)
    IN  [j \in DOMAIN kept |-> kept[j].label]

\* __clean_working_data, lines 110-111: `del self.categorical_columns[i]` for each
\* dropped label in turn.  Python raises IndexError when i >= len(list); the
\* deletions made before that stay made.
RECURSIVE DeleteFlags(_, _)
DeleteFlags(flags, labels) ==
    IF labels = <<>> THEN [raised |-> FALSE, flags |-> flags]
    ELSE IF Head(labels) >= Len(flags) THEN [raised |-> TRUE, flags |-> flags]
    ELSE DeleteFlags(DelAt(flags, Head(labels)), Tail(labels))

\* __clean_working_data, line 114: working_data.drop(columns=..., inplace=True)
DropColumns(df, labels) == SelectSeq(df, LAMBDA c : c.label \notin Range(labels))

\* LabelEncoder.fit on the non-missing values of a column: classes_
Classes(cells) == SortedUnique(Range(NonNullValues(cells)))

\* an encoding that numbers the classes from the greatest down
CodeOfReversed(classes, v) == Len(classes) - (CHOOSE k \in DOMAIN classes : classes[k] = v)

\* LabelEncoder.transform of one value: its 0-based rank in classes_
CodeOf(classes, v) == (CHOOSE k \in DOMAIN classes : classes[k] = v) - 1

\* __process_categorical_data, lines 124-132: every column whose position is flagged
\* in categorical_columns has its non-missing cells replaced by their codes (the
\* assignment through iloc[:, col_idx][non_null_mask] is taken to reach working_data)
EncodeColumns(df, flags) ==
    [p \in DOMAIN df |->
        IF p \in DOMAIN flags /\ flags[p]
        THEN [label |-> df[p].label,
              cells |-> [r \in DOMAIN df[p].cells |->
                            IF df[p].cells[r] = NaN THEN NaN
                            ELSE CodeOf(Classes(df[p].cells), df[p].cells[r])]]
        ELSE df[p]]

\* self.column_to_encoder, line 131 (<<>> where the position has no encoder)
Encoders(df, flags) ==
    [p \in DOMAIN df |-> IF p \in DOMAIN flags /\ flags[p] THEN Classes(df[p].cells) ELSE <<>>]

\* SimpleImputer(strategy='mean'): the mean of the non-missing cells.  The columns
\* of the model are chosen so that the mean is a whole number.
ColumnMean(cells) == SumSeq(NonNullValues(cells)) \div Len(NonNullValues(cells))

\* line 101: the initial fill, a frame whose labels are the positions
InitialFill(df) ==
    [p \in DOMAIN df |->
        [r \in DOMAIN df[p].cells |->
            IF df[p].cells[r] = NaN THEN ColumnMean(df[p].cells) ELSE df[p].cells[r]]]

\* __init_metrics, line 146
DirectionOf(m) == IF m = "r2_accuracy" THEN 1 ELSE -1

\* __init_metrics, line 150: np.full(num_of_columns, -np.inf * metric_direction)
InitialScores(n, direction) == [p \in 1..n |-> (-Inf) * direction]

\* MissMixed(raw_data, sequential, categorical_columns, metric, ...)
Construct ==
    /\ pc = "new"
    /\ LET frame == AsFrame(raw_data)
           labels == ColumnsToBeDropped(frame)
           del == DeleteFlags(categorical_columns, labels)
           cleaned == DropColumns(frame, labels)
           encoded == EncodeColumns(cleaned, del.flags)
       IN  IF del.raised
           THEN \* line 111 raises: nothing after it runs
                /\ pc' = "IndexError"
                /\ categorical_columns' = del.flags
                /\ working_data' = frame
                /\ UNCHANGED <<column_to_encoder, num_of_columns, imputed_df,
                               metric_direction, max_metric_tests, accepted_scores>>
           ELSE /\ categorical_columns' = del.flags
                /\ accepted_scores' = [p \in DOMAIN encoded |-> <<>>]
                /\ working_data' = encoded
                /\ column_to_encoder' = Encoders(cleaned, del.flags)
                /\ num_of_columns' = Len(encoded)
                /\ imputed_df' = InitialFill(encoded)
                /\ IF metric \notin acceptable_metrics
                   THEN \* line 145 raises
                        /\ pc' = "ValueError"
                        /\ UNCHANGED <<metric_direction, max_metric_tests>>
                   ELSE /\ pc' = "ready"
                        /\ metric_direction' = DirectionOf(metric)
                        /\ max_metric_tests' = InitialScores(Len(encoded), DirectionOf(metric))
    /\ trained' = {}
    /\ UNCHANGED <<inputs, idx, col_idx, updated_column_count, updated_columns_count,
                   early_stop_prints, result_calls, pass>>

\* no call of __can_impute
NoGateCall == [called |-> FALSE, seeded |-> FALSE, col |-> 0, test_score |-> 0, do |-> FALSE]

\* the state before the constructor has run
Unbuilt ==
    /\ pc = "new"
    /\ working_data = <<>>
    /\ column_to_encoder = <<>>
    /\ num_of_columns = 0
    /\ imputed_df = <<>>
    /\ metric_direction = 0
    /\ max_metric_tests = <<>>
    /\ idx = 0
    /\ col_idx = 0
    /\ updated_column_count = 0
    /\ updated_columns_count = <<>>
    /\ early_stop_prints = 0
    /\ result_calls = 0
    /\ trained = {}
    /\ accepted_scores = <<>>
    /\ normalized_features = <<>>
    /\ metric_scores = <<>>
    /\ best_index = 0
    /\ gate_call = NoGateCall

\* the early-stopping settings: switched off with the defaults, or on with a
\* window and a tolerance
StoppingSettings ==
    {<<FALSE, 1, <<1, 10>>>>}
      \cup {<<TRUE, k, t>> : k \in 1..MaxIterPerStopping, t \in Tolerances}

\* constructor arguments: every table, flag list and metric name
InitCtor ==
    /\ Unbuilt
    /\ raw_data \in Tables
    /\ given_flags \in FlagLists
    /\ categorical_columns = given_flags
    /\ metric \in Metrics
    /\ early_stopping = FALSE
    /\ iter_per_stopping = 1
    /\ tolerance_percentage = <<1, 10>>
    /\ train_size = <<9, 10>>
    /\ sequential \in {s \in Sequentials : Len(s) = 1}

NextCtor == Construct

SpecCtor == InitCtor /\ [][NextCtor]_vars

(***************************************************************************)
(* The run: fit_transform, lines 152-167                                   *)
(***************************************************************************)

\* the values a fitted numerical model may predict (negative ones included)
NumericalPredictions == {-1, 7}

\* the values a fitted categorical model may predict: the codes it was trained on
CategoricalPredictions(classes) == {k - 1 : k \in DOMAIN classes}

\* imputer.set_model(is_categorical), line 187: imputer.model is None when the
\* stage has no variant for the column type
HasModel(stage, is_categorical) ==
    IF is_categorical THEN stage.categorical ELSE stage.numerical

\* train_test_split(x, y, train_size), line 343: the number of validation rows
\* left when the train proportion of n rows is taken
TestSize(n, fraction) == n - ((n * fraction[1]) \div fraction[2])

\* line 196: the score seeded for a column without missing values,
\* `1 if self.metric_direction else 0`
SeedScore(direction) == IF direction # 0 THEN 1 ELSE 0

\* a comparison that also lets through a candidate equal to the stored score
IsBetterOrEqual(stored, test_score, direction) == stored * direction <= test_score * direction

\* __can_impute, line 265: the comparison that decides acceptance
IsBetter(stored, test_score, direction) == stored * direction < test_score * direction

\* a gate that stores the candidate score whatever the comparison says
CanImputeAlwaysStores(scores, p, test_score, direction) ==
    [do |-> scores[p] * direction < test_score * direction,
     scores |-> [scores EXCEPT ![p] = test_score]]

\* __can_impute, lines 265-269: the decision and the score board after it
CanImpute(scores, p, test_score, direction) ==
    LET do == IsBetter(scores[p], test_score, direction)
    IN  [do |-> do, scores |-> IF do THEN [scores EXCEPT ![p] = test_score] ELSE scores]

\* a selection that takes the last index among equal best scores
BestIndexLast(trials, direction) ==
    CHOOSE i \in DOMAIN trials :
        /\ \A j \in DOMAIN trials : trials[j].val * direction <= trials[i].val * direction
        /\ \A j \in DOMAIN trials : j > i => trials[j].val * direction < trials[i].val * direction

\* line 241: np.argmax over val * direction, the first index among equals
BestIndex(trials, direction) ==
    CHOOSE i \in DOMAIN trials :
        /\ \A j \in DOMAIN trials : trials[j].val * direction <= trials[i].val * direction
        /\ \A j \in DOMAIN trials : j < i => trials[j].val * direction < trials[i].val * direction

\* a write that replaces the whole column: the missing rows by the predictions,
\* the observed rows by 0
ApplyBestModelWholeColumn(df, p, rows, y_pred_to_impute) ==
    [df EXCEPT ![p] = [r \in DOMAIN @ |-> IF r \in rows THEN y_pred_to_impute[r] ELSE 0]]

\* __apply_best_model, lines 280-281: the model's predictions are written into the
\* rows of column p that are missing in working_data
ApplyBestModel(df, p, rows, y_pred_to_impute) ==
    [df EXCEPT ![p] = [r \in DOMAIN @ |-> IF r \in rows THEN y_pred_to_impute[r] ELSE @[r]]]

\* what one trial of a stage yields for position p: its validation score and the
\* predictions of its model snapshot for the rows to impute
TrialOutcomes(p) ==
    [val : Scores,
     pred : [IsNull(working_data[p].cells) ->
                IF categorical_columns[p]
                THEN CategoricalPredictions(column_to_encoder[p])
                ELSE NumericalPredictions]]

\* SharedData.is_categorical(), line 400: the flag stored for the column being
\* processed (line 185); it takes no column, so it is the same for every feature
SharedIsCategorical(p) == categorical_columns[p]

\* a feature value is kept as a fraction <<numerator, denominator>>
SameValue(x, y) == x[1] * y[2] = y[1] * x[2] /\ (x[2] = 0 <=> y[2] = 0)

ColMin(cells) == CHOOSE m \in Range(cells) : \A v \in Range(cells) : m <= v

ColMax(cells) == CHOOSE m \in Range(cells) : \A v \in Range(cells) : v <= m

\* __normalize, lines 401-405: ((x - col_min) / (col_max - col_min)) * 10
MinMaxScaled(cells) ==
    [r \in DOMAIN cells |-> <<(cells[r] - ColMin(cells)) * 10, ColMax(cells) - ColMin(cells)>>]

\* a column that __normalize leaves as it is
Unscaled(cells) == [r \in DOMAIN cells |-> <<cells[r], 1>>]

\* __normalize, lines 399-407, for the features of target position p
Normalize(features_df, p) ==
    [q \in DOMAIN features_df |->
        IF ~SharedIsCategorical(p) THEN MinMaxScaled(features_df[q]) ELSE Unscaled(features_df[q])]

\* line 336: imputed_df.drop(columns=[col_index])
DropTarget(df, p) == [q \in (DOMAIN df) \ {p} |-> df[q]]

\* features read from the initial fill instead of the matrix given
DatasetPreparationStale(df, p) == Normalize(DropTarget(InitialFill(working_data), p), p)

\* __dataset_preparation, lines 336-338: the normalized features for target p
DatasetPreparation(df, p) == Normalize(DropTarget(df, p), p)

\* the matrix with its feature columns scaled where they stand (whole part)
FrameNormalizedInPlace(df, p) ==
    [q \in DOMAIN df |->
        IF q = p \/ SharedIsCategorical(p) \/ ColMax(df[q]) = ColMin(df[q]) THEN df[q]
        ELSE [r \in DOMAIN df[q] |->
                 ((df[q][r] - ColMin(df[q])) * 10) \div (ColMax(df[q]) - ColMin(df[q]))]]

\* lines 336-338: drop returns a new frame and __normalize assigns into that one,
\* so self.imputed_df is after the preparation what it was before
FrameAfterPreparation(df, p) == df

\* at least one validation row is taken as enough
EnoughValidationRowsOne(n) == n >= 1

\* line 226: len(ds['y_test']) >= 2
EnoughValidationRows(n) == n >= 2

\* a count that goes up whether or not the column was updated
CountAfterAlways(count, is_column_updated) == count + 1

\* lines 201-202: the count of updated columns after a column was processed
CountAfter(count, is_column_updated) == IF is_column_updated THEN count + 1 ELSE count

\* fit_transform is called
FitTransform ==
    /\ pc = "ready"
    /\ updated_columns_count' = <<>>
    /\ IF sequential = <<>>
       THEN pc' = "done" /\ UNCHANGED <<idx, col_idx>>
       ELSE pc' = "running" /\ idx' = 1 /\ col_idx' = 1
    /\ updated_column_count' = 0
    /\ UNCHANGED <<inputs, categorical_columns, working_data, column_to_encoder,
                   num_of_columns, imputed_df, metric_direction, max_metric_tests,
                   early_stop_prints, result_calls, trained, accepted_scores, pass>>

\* one pass of the loop of __process_each_imputer, lines 181-204, with
\* __process_each_column, lines 223-252
ProcessColumn ==
    /\ pc = "running"
    /\ col_idx <= num_of_columns
    /\ LET p == col_idx
           imputer == sequential[idx]
           y_missing == IsNull(working_data[p].cells)
           y_test_len == TestSize(Cardinality(NotNa(working_data[p].cells)), train_size)
           prepared == FrameAfterPreparation(imputed_df, p)
       IN  IF ~HasModel(imputer, categorical_columns[p])
           THEN \* lines 189-191
                /\ normalized_features' = <<>>
                /\ metric_scores' = <<>>
                /\ best_index' = 0
                /\ gate_call' = NoGateCall
                /\ UNCHANGED <<max_metric_tests, imputed_df, updated_column_count,
                               trained, accepted_scores>>
           ELSE IF IsNull(raw_data[p]) = {}
           THEN \* lines 194-197
                LET gate == CanImpute(max_metric_tests, p, SeedScore(metric_direction),
                                      metric_direction)
                IN  /\ max_metric_tests' = gate.scores
                    /\ accepted_scores' =
                           IF gate.do
                           THEN [accepted_scores EXCEPT
                                    ![p] = Append(@, SeedScore(metric_direction))]
                           ELSE accepted_scores
                    /\ normalized_features' = <<>>
                    /\ metric_scores' = <<>>
                    /\ best_index' = 0
                    /\ gate_call' = [called |-> TRUE, seeded |-> TRUE, col |-> p,
                                     test_score |-> SeedScore(metric_direction),
                                     do |-> gate.do]
                    /\ UNCHANGED <<imputed_df, updated_column_count, trained>>
           ELSE \* line 225, then lines 226-250
                /\ normalized_features' = DatasetPreparation(imputed_df, p)
                /\ IF ~EnoughValidationRows(y_test_len)
                   THEN /\ imputed_df' = prepared
                        /\ updated_column_count' = CountAfter(updated_column_count, FALSE)
                        /\ metric_scores' = <<>>
                        /\ best_index' = 0
                        /\ gate_call' = NoGateCall
                        /\ UNCHANGED <<max_metric_tests, trained, accepted_scores>>
                   ELSE \E trials \in [1..imputer.trials -> TrialOutcomes(p)] :
                            LET best == BestIndex(trials, metric_direction)
                                gate == CanImpute(max_metric_tests, p, trials[best].val,
                                                  metric_direction)
                            IN  /\ trained' = trained \cup {p}
                                /\ metric_scores' = trials
                                /\ best_index' = best
                                /\ gate_call' = [called |-> TRUE, seeded |-> FALSE, col |-> p,
                                                 test_score |-> trials[best].val,
                                                 do |-> gate.do]
                                /\ max_metric_tests' = gate.scores
                                /\ updated_column_count' =
                                       CountAfter(updated_column_count, gate.do)
                                /\ IF gate.do
                                   THEN /\ imputed_df' = ApplyBestModel(prepared, p, y_missing,
                                                                        trials[best].pred)
                                        /\ accepted_scores' =
                                               [accepted_scores EXCEPT
                                                   ![p] = Append(@, trials[best].val)]
                                   ELSE /\ imputed_df' = prepared
                                        /\ UNCHANGED accepted_scores
    /\ col_idx' = col_idx + 1
    /\ UNCHANGED <<pc, inputs, categorical_columns, working_data, column_to_encoder,
                   num_of_columns, metric_direction, idx, updated_columns_count,
                   early_stop_prints, result_calls>>

\* Python's lst[-k:] for len(lst) >= k >= 0 (lst[-0:] is the whole list)
LastSlice(lst, k) == IF k = 0 THEN lst ELSE SubSeq(lst, Len(lst) - k + 1, Len(lst))

\* the loop with `>=` for `>`: a count that equals the tolerance is taken as above it
RECURSIVE WithinToleranceStrict(_, _, _)
WithinToleranceStrict(counts, columns, tolerance) ==
    IF counts = <<>> THEN TRUE
    ELSE IF Head(counts) * tolerance[2] >= tolerance[1] * columns THEN FALSE
    ELSE WithinToleranceStrict(Tail(counts), columns, tolerance)

\* __check_early_stopping, lines 320-323: the loop over the slice
RECURSIVE WithinTolerance(_, _, _)
WithinTolerance(counts, columns, tolerance) ==
    IF counts = <<>> THEN TRUE
    ELSE IF Head(counts) * tolerance[2] > tolerance[1] * columns THEN FALSE
    ELSE WithinTolerance(Tail(counts), columns, tolerance)

\* __check_early_stopping, lines 318-324
CheckEarlyStopping(counts) ==
    IF early_stopping
    THEN IF Len(counts) >= iter_per_stopping
         THEN WithinTolerance(LastSlice(counts, iter_per_stopping), num_of_columns,
                              tolerance_percentage)
         ELSE FALSE
    ELSE FALSE

\* a loop that takes the same stage again
NextStageSame(i) == i

\* fit_transform, line 158: the stage taken after stage i
NextStage(i) == i + 1

\* the end of a stage: __process_each_imputer returns (line 209) and fit_transform
\* records the count, tests early stopping and goes on (lines 164-167, 158)
EndStage ==
    /\ pc = "running"
    /\ col_idx > num_of_columns
    /\ updated_columns_count' = Append(updated_columns_count, updated_column_count)
    /\ early_stop_prints' =
           IF CheckEarlyStopping(updated_columns_count')
           THEN early_stop_prints + 1 ELSE early_stop_prints
    /\ IF NextStage(idx) <= Len(sequential)
       THEN /\ idx' = NextStage(idx)
            /\ col_idx' = 1
            /\ updated_column_count' = 0
            /\ pc' = pc
       ELSE /\ pc' = "done"
            /\ UNCHANGED <<idx, col_idx, updated_column_count>>
    /\ UNCHANGED <<inputs, categorical_columns, working_data, column_to_encoder,
                   num_of_columns, imputed_df, metric_direction, max_metric_tests,
                   result_calls, trained, accepted_scores>>
    /\ normalized_features' = <<>>
    /\ metric_scores' = <<>>
    /\ best_index' = 0
    /\ gate_call' = NoGateCall

(***************************************************************************)
(* result, lines 366-373                                                   *)
(***************************************************************************)

\* LabelEncoder.inverse_transform accepts a column iff every value is a known code
Decodable(classes, cells) == \A r \in DOMAIN cells : cells[r] \in 0..(Len(classes) - 1)

\* LabelEncoder.inverse_transform of the cells cast to int64 (the cells of the
\* model are whole numbers, which the cast leaves as they are)
InverseTransform(classes, cells) == [r \in DOMAIN cells |-> classes[cells[r] + 1]]

\* lines 366-368: the loop over the positions from p on; it stops at the first
\* column that cannot be decoded, with the earlier columns already replaced
RECURSIVE DecodeFrom(_, _)
DecodeFrom(df, p) ==
    IF p > num_of_columns THEN [raised |-> FALSE, df |-> df]
    ELSE IF ~categorical_columns[p] THEN DecodeFrom(df, p + 1)
    ELSE IF ~Decodable(column_to_encoder[p], df[p]) THEN [raised |-> TRUE, df |-> df]
    ELSE DecodeFrom([df EXCEPT ![p] = InverseTransform(column_to_encoder[p], @)], p + 1)

\* result() is called after the run
Result ==
    /\ pc = "done"
    /\ result_calls < MaxResultCalls
    /\ result_calls' = result_calls + 1
    /\ LET decoded == DecodeFrom(imputed_df, 1)
       IN  /\ imputed_df' = decoded.df
           /\ pc' = IF decoded.raised THEN "ValueError_unseen_labels" ELSE "done"
    /\ UNCHANGED <<inputs, categorical_columns, working_data, column_to_encoder,
                   num_of_columns, metric_direction, max_metric_tests, idx, col_idx,
                   updated_column_count, updated_columns_count, early_stop_prints,
                   trained, accepted_scores, pass>>

(***************************************************************************)
(* Specifications                                                          *)
(***************************************************************************)

\* a whole run: the chosen tables and flag lists, both metrics, every stopping
\* setting, train proportion and stage sequence
Init ==
    /\ Unbuilt
    /\ raw_data \in RunTables
    /\ given_flags \in RunFlagLists
    /\ categorical_columns = given_flags
    /\ metric \in acceptable_metrics
    /\ \E s \in StoppingSettings :
          /\ early_stopping = s[1]
          /\ iter_per_stopping = s[2]
          /\ tolerance_percentage = s[3]
    /\ train_size \in TrainSizes
    /\ sequential \in Sequentials

Next == Construct \/ FitTransform \/ ProcessColumn \/ EndStage \/ Result

Spec == Init /\ [][Next]_vars

\* the runs explored for termination: as Init, with early stopping on over a window of one stage
\* (the stopping test changes no step the loop takes)
InitLive ==
    /\ Init
    /\ iter_per_stopping = 1
    /\ early_stopping

\* fit_transform is one synchronous call: once running, the loop takes its next step
SpecLive == InitLive /\ [][Next]_vars /\ WF_vars(ProcessColumn) /\ WF_vars(EndStage)

(***************************************************************************)
(* Properties                                                              *)
(***************************************************************************)

Built == pc \in {"ready", "running", "done", "ValueError_unseen_labels"}

\* the input column that the working column at position p was made from
InputColumn(p) == raw_data[working_data[p].label + 1]

\* C1: once the early-stopping condition has been met at the end of a stage,
\* fit_transform has halted: it is not processing a later stage.
C1_HaltsWhenConditionHits == early_stop_prints > 0 => pc # "running"

\* C2: when the constructor raises for an unsupported metric name, nothing has been
\* processed: no column dropped or encoded, no initial fill computed, and the
\* caller's flag list is as it was passed in.
C2_MetricErrorBeforeProcessing ==
    pc = "ValueError" =>
        /\ working_data \in {<<>>, AsFrame(raw_data)}
        /\ imputed_df = <<>>
        /\ categorical_columns = given_flags

\* C3: every value that stands in a row of the imputed matrix that was missing in a
\* numerical column is >= 0, whatever the models predict.
C3_NonNegative ==
    \A p \in DOMAIN imputed_df :
        ~categorical_columns[p] =>
            \A r \in IsNull(working_data[p].cells) : imputed_df[p][r] >= 0

\* the direction-best of a non-empty sequence of scores
BestOf(scores, direction) ==
    CHOOSE b \in Range(scores) : \A x \in Range(scores) : x * direction <= b * direction

\* C4: the score board never gets direction-worse; an entry changes exactly when a
\* score is accepted for its column, and the accepted score is then strictly
\* direction-better than the entry it replaces; the accepted scores of a column
\* improve strictly, and its entry is the direction-best of them (its initial
\* value when none was accepted).
C4_MonotonicImprovement ==
    /\ [][\A p \in DOMAIN max_metric_tests :
             /\ max_metric_tests'[p] * metric_direction >= max_metric_tests[p] * metric_direction
             /\ max_metric_tests'[p] # max_metric_tests[p] =>
                   /\ max_metric_tests'[p] * metric_direction
                         > max_metric_tests[p] * metric_direction
                   /\ accepted_scores'[p] = Append(accepted_scores[p], max_metric_tests'[p])
             /\ max_metric_tests'[p] = max_metric_tests[p] =>
                   accepted_scores'[p] = accepted_scores[p]]_vars
    /\ [](\A p \in DOMAIN max_metric_tests :
             /\ \A i, j \in DOMAIN accepted_scores[p] :
                   i < j => accepted_scores[p][i] * metric_direction
                               < accepted_scores[p][j] * metric_direction
             /\ max_metric_tests[p] =
                   IF accepted_scores[p] = <<>> THEN (-Inf) * metric_direction
                   ELSE BestOf(accepted_scores[p], metric_direction))

\* C4 witness: under the minimizing metric a column has had two scores accepted,
\* and its entry is the second, lower one
C4_Witness ==
    /\ metric_direction = -1
    /\ \E p \in DOMAIN accepted_scores :
          /\ Len(accepted_scores[p]) >= 2
          /\ max_metric_tests[p] = accepted_scores[p][Len(accepted_scores[p])]

\* C5: a column without missing values in the input is never trained, and until
\* result() decodes the table its cells are those of the initial fill.
C5_NoMissingInvariance ==
    (Built /\ result_calls = 0) =>
        \A p \in DOMAIN working_data :
            IsNull(InputColumn(p)) = {} =>
                /\ p \notin trained
                /\ imputed_df[p] = InitialFill(working_data)[p]

\* C6: the entry seeded for a column without missing values is 1 when the metric
\* is maximized and 0 when it is minimized.
C6_SentinelByDirection ==
    Built =>
        \A p \in DOMAIN working_data :
            (/\ IsNull(InputColumn(p)) = {}
             /\ p \notin trained
             /\ max_metric_tests[p] # (-Inf) * metric_direction)
                => max_metric_tests[p] = (IF metric_direction = 1 THEN 1 ELSE 0)

\* the positions of the input columns that cleaning keeps, in order
SurvivingPositions ==
    SelectSeq([p \in DOMAIN raw_data |-> p],
              LAMBDA p : Cardinality(NotNa(raw_data[p])) >= 2)

\* C7: cleaning never raises, and afterwards the flag list has one entry per
\* surviving column, the j-th being the flag given for the j-th surviving column.
C7_FlagsFollowSurvivors ==
    pc # "new" =>
        /\ pc # "IndexError"
        /\ categorical_columns =
               [j \in DOMAIN SurvivingPositions |-> given_flags[SurvivingPositions[j]]]

C9_ResultIdempotent ==
    [][(result_calls >= 1 /\ result_calls' = result_calls + 1) =>
          (pc' = "done" /\ imputed_df' = imputed_df)]_vars

\* the early-stopping condition as the specification states it
StopConditionMet(counts) ==
    /\ early_stopping
    /\ Len(counts) >= iter_per_stopping
    /\ \A i \in DOMAIN counts :
          i > Len(counts) - iter_per_stopping =>
              counts[i] * tolerance_percentage[2] <= tolerance_percentage[1] * num_of_columns

\* C10: at the end of a stage the early-stopping condition is found true iff early
\* stopping is enabled, at least iter_per_stopping stages have run and each of the
\* most recent iter_per_stopping counts is within the tolerance.
C10_EarlyStoppingCondition ==
    [][updated_columns_count' # updated_columns_count =>
          ((early_stop_prints' = early_stop_prints + 1)
              <=> StopConditionMet(updated_columns_count'))]_vars

\* C10 witness: the condition was found true over a window of two stages
C10_Witness ==
    /\ early_stop_prints >= 1
    /\ iter_per_stopping >= 2
    /\ Len(updated_columns_count) >= 2

\* one pass of the column loop was taken by this step
ColumnStep == pc = "running" /\ col_idx' = col_idx + 1

\* C11: the gate accepts iff the candidate is strictly better than the column's
\* stored score in the direction of the metric (greater when maximizing, smaller
\* when minimizing; an equal candidate is rejected); an accepted candidate becomes
\* the stored score, a rejected one leaves it, and no other column's score moves.
C11_GateStrict ==
    [][(ColumnStep /\ gate_call'.called) =>
          LET c == gate_call'.col
              stored == max_metric_tests[c]
              candidate == gate_call'.test_score
              better == IF metric_direction = 1 THEN candidate > stored
                        ELSE candidate < stored
          IN  /\ metric_direction \in {1, -1}
              /\ gate_call'.do <=> better
              /\ max_metric_tests'[c] = IF gate_call'.do THEN candidate ELSE stored
              /\ DOMAIN max_metric_tests' = DOMAIN max_metric_tests
              /\ \A q \in DOMAIN max_metric_tests :
                     q # c => max_metric_tests'[q] = max_metric_tests[q]]_vars

\* a candidate equal to the stored score was rejected
C11_Witness ==
    /\ pc = "running"
    /\ gate_call.called
    /\ ~gate_call.do
    /\ gate_call.test_score = max_metric_tests[gate_call.col]

\* C12: a pass over a column changes imputed_df only when the gate accepted, and
\* then only cells of that column in rows missing in working_data; every other
\* cell, and the whole matrix on rejection, is as before.
C12_WritesOnlyMissingCells ==
    [][ColumnStep =>
          LET accepted == gate_call'.called /\ gate_call'.do
          IN  /\ DOMAIN imputed_df' = DOMAIN imputed_df
              /\ ~accepted => imputed_df' = imputed_df
              /\ \A q \in DOMAIN imputed_df :
                     /\ DOMAIN imputed_df'[q] = DOMAIN imputed_df[q]
                     /\ \A r \in DOMAIN imputed_df[q] :
                            imputed_df'[q][r] # imputed_df[q][r] =>
                                /\ accepted
                                /\ q = col_idx
                                /\ working_data[q].cells[r] = NaN]_vars

\* an accepted pass has just written a value other than the initial fill
C12_Witness ==
    /\ pc = "running"
    /\ gate_call.called
    /\ gate_call.do
    /\ ~gate_call.seeded
    /\ \E r \in IsNull(working_data[gate_call.col].cells) :
           imputed_df[gate_call.col][r] # InitialFill(working_data)[gate_call.col][r]

FeaturesOf(df, q) ==
    {MinMaxScaled(df[q]), Unscaled(df[q])}

\* C14: within a stage the columns are taken in increasing position, each stage
\* starting at the first, and the features prepared for a column are those of
\* imputed_df as it stands when the column is taken (scaled or not), so that
\* every update accepted before is in them.
C14_ChainedOrdering ==
    /\ [][(pc = "running" /\ pc' = "running" /\ idx' = idx) => col_idx' = col_idx + 1]_vars
    /\ [][(pc' = "running" /\ (pc # "running" \/ idx' # idx)) => col_idx' = 1]_vars
    /\ [][ColumnStep =>
             /\ gate_call'.called => gate_call'.col = col_idx
             /\ DOMAIN metric_scores' # {} => DOMAIN normalized_features' # {}
             /\ DOMAIN normalized_features' # {} =>
                    /\ DOMAIN normalized_features' = (DOMAIN imputed_df) \ {col_idx}
                    /\ \A q \in DOMAIN normalized_features' :
                           \E f \in FeaturesOf(imputed_df, q) :
                               \A r \in DOMAIN f :
                                   SameValue(normalized_features'[q][r], f[r])]_vars

\* in the first stage, the features of the column just taken held a column that
\* an earlier pass of the same stage had updated
C14_Witness ==
    /\ pc = "running"
    /\ idx = 1
    /\ \E q \in DOMAIN normalized_features :
           /\ q < col_idx - 1
           /\ q \in trained
           /\ \E r \in DOMAIN imputed_df[q] :
                  /\ imputed_df[q][r] # InitialFill(working_data)[q][r]
                  /\ \E f \in FeaturesOf(imputed_df, q) :
                         SameValue(normalized_features[q][r], f[r])

\* C15: the trial selected for a column has the best validation score in the
\* direction of the metric (greatest under r2_accuracy, smallest under mse), it
\* is the first trial with that score, its score is the one put to the gate, and
\* when the gate accepts, the predictions written are those of that trial.
C15_TrialSelection ==
    DOMAIN metric_scores # {} =>
        /\ best_index \in DOMAIN metric_scores
        /\ \A j \in DOMAIN metric_scores :
               IF metric = "r2_accuracy"
               THEN metric_scores[j].val <= metric_scores[best_index].val
               ELSE metric_scores[j].val >= metric_scores[best_index].val
        /\ \A j \in DOMAIN metric_scores :
               j < best_index => metric_scores[j].val # metric_scores[best_index].val
        /\ gate_call.called
        /\ gate_call.test_score = metric_scores[best_index].val
        /\ gate_call.do =>
               \A r \in IsNull(working_data[gate_call.col].cells) :
                   imputed_df[gate_call.col][r] = metric_scores[best_index].pred[r]

\* two trials tied on the best score with different predictions, and the
\* selected one was accepted
C15_Witness ==
    /\ DOMAIN metric_scores = {1, 2}
    /\ metric_scores[1].val = metric_scores[2].val
    /\ metric_scores[1].pred # metric_scores[2].pred
    /\ gate_call.do

\* C16: in the features prepared for a target column, a feature column is
\* min-max scaled iff that feature column is flagged numerical and left as it is
\* iff it is flagged categorical, whatever the target's type (stated for tables
\* from which cleaning dropped nothing).
C16_PerFeatureNormalization ==
    Len(working_data) = Len(raw_data) =>
        \A q \in DOMAIN normalized_features :
            \A r \in DOMAIN normalized_features[q] :
                SameValue(normalized_features[q][r],
                          IF categorical_columns[q]
                          THEN Unscaled(imputed_df[q])[r]
                          ELSE MinMaxScaled(imputed_df[q])[r])

\* C17: the count of a stage starts at 0, goes up by one exactly in the passes
\* whose candidate was accepted and written (a seeded score is not counted), and
\* is what the stage appends to the history; when no input column has a missing
\* value every appended count is 0 and the table is the initial fill, which
\* result() returns as the input.
C17_UpdateCount ==
    /\ [][ColumnStep =>
             updated_column_count' =
                 IF gate_call'.called /\ ~gate_call'.seeded /\ gate_call'.do
                 THEN updated_column_count + 1 ELSE updated_column_count]_vars
    /\ [][(pc' = "running" /\ (pc # "running" \/ idx' # idx)) =>
             updated_column_count' = 0]_vars
    /\ [][updated_columns_count' # updated_columns_count =>
             updated_columns_count' = IF pc = "running"
                                      THEN Append(updated_columns_count, updated_column_count)
                                      ELSE <<>>]_vars
    /\ []((Built /\ \A p \in DOMAIN raw_data : IsNull(raw_data[p]) = {}) =>
             /\ \A i \in DOMAIN updated_columns_count : updated_columns_count[i] = 0
             /\ result_calls = 0 => imputed_df = InitialFill(working_data)
             /\ result_calls = 1 =>
                    \A p \in DOMAIN imputed_df : imputed_df[p] = raw_data[p])

\* a stage ended with a count of at least one and fewer than the columns, one of
\* which had only been seeded
C17_Witness ==
    /\ pc = "done"
    /\ Len(updated_columns_count) >= 1
    /\ updated_columns_count[1] >= 1
    /\ \E p \in DOMAIN accepted_scores :
           /\ p \notin trained
           /\ Len(accepted_scores[p]) >= 1

\* C18: a column is taken as complete (seeded, not trained) at a position only
\* when the working column at that position has no missing value.
C18_CompleteTestOnWorkingColumn ==
    gate_call.seeded => IsNull(working_data[gate_call.col].cells) = {}

\* C19: a cell observed in the input is never overwritten during the run, and
\* the first result() raises nothing and returns it with its original value,
\* in numerical and in categorical columns.
C19_ObservedCellsKept ==
    /\ (Built /\ result_calls = 0) =>
           \A p \in DOMAIN imputed_df : \A r \in NotNa(working_data[p].cells) :
               imputed_df[p][r] = working_data[p].cells[r]
    /\ result_calls = 1 =>
           /\ pc = "done"
           /\ \A p \in DOMAIN imputed_df : \A r \in NotNa(InputColumn(p)) :
                  imputed_df[p][r] = InputColumn(p)[r]

\* result() has returned a table with a categorical column whose missing cells
\* had been imputed by an accepted model
C19_Witness ==
    /\ result_calls = 1
    /\ pc = "done"
    /\ \E p \in trained :
           /\ categorical_columns[p]
           /\ Len(accepted_scores[p]) >= 1
           /\ IsNull(working_data[p].cells) # {}

\* the values a model may predict for position p
Predictions(p) ==
    IF categorical_columns[p] THEN CategoricalPredictions(column_to_encoder[p])
    ELSE NumericalPredictions

\* C20: preparing the features of a column leaves imputed_df as it was: a pass
\* that prepared features and wrote no accepted prediction changes nothing, and
\* until result() every cell holds its initial fill or, in a row missing in
\* working_data, a prediction.
C20_PreparationOnCopy ==
    /\ [][(ColumnStep /\ DOMAIN normalized_features' # {}
              /\ ~(gate_call'.called /\ gate_call'.do)) => imputed_df' = imputed_df]_vars
    /\ []((Built /\ result_calls = 0) =>
             \A p \in DOMAIN imputed_df : \A r \in DOMAIN imputed_df[p] :
                 \/ imputed_df[p][r] = InitialFill(working_data)[p][r]
                 \/ /\ working_data[p].cells[r] = NaN
                    /\ imputed_df[p][r] \in Predictions(p))

\* features were prepared and scaled for a column whose candidate was not
\* accepted
C20_Witness ==
    /\ pc = "running"
    /\ ~gate_call.do
    /\ \E q \in DOMAIN normalized_features : \E r \in DOMAIN normalized_features[q] :
           ~SameValue(normalized_features[q][r], <<imputed_df[q][r], 1>>)

====
